---- MODULE Spec2Model ----
(***************************************************************************)
(* URL shortener service (src/main.py): a short code derived from the      *)
(* SHA-256 digest of a long URL, a per-process in-memory cache url_cache   *)
(* in front of a shared DynamoDB table, and the three request handlers     *)
(* POST /shorten, GET /redirect/{code} and GET /stats/{code}.              *)
(*                                                                         *)
(* url_cache is a module global: every process instance (Lambda container) *)
(* has its own, and all instances share the one table.  The model follows  *)
(* one instance, its cache and the responses it returns, and keeps of the  *)
(* other instances' requests their effect on the table.                    *)
(***************************************************************************)
EXTENDS Integers, Sequences, FiniteSets, TLC

(***************************************************************************)
(* Bounds of the model.                                                    *)
(***************************************************************************)
\* Capacity of url_cache.  The program sets 100 (src/main.py:17); the model
\* scales it down so that the URLs below fill the cache and overflow it.
CACHE_SIZE == 2
\* Number of redirects that return a URL in one behaviour, all codes and
\* instances together.
MaxRedirects == 2
\* Largest value of the clock read by int(time.time()).
MaxTime == 1

\* The request bodies' "url" values that are explored.  The last two are two
\* URLs whose SHA-256 digests share their first 8 hex digits.
RawUrls ==
    { "example.com/x",
      "https://example.com/x",
      "http://example.com/x",
      "https://example.com/p21031",
      "https://example.com/p40344" }

\* Python's None.
None == "None"

(***************************************************************************)
(* Pure functions.                                                         *)
(***************************************************************************)
\* str.startswith(prefix)
StartsWith(s, prefix) ==
    /\ Len(s) >= Len(prefix)
    /\ SubSeq(s, 1, Len(prefix)) = prefix

\* Mutant of Normalize: the URL is passed on as received.
NormalizeNothing(url) == url

\* lambda_handler: "if not long_url.startswith(('http://', 'https://')):
\*                      long_url = 'https://' + long_url"
Normalize(url) ==
    IF StartsWith(url, "http://") \/ StartsWith(url, "https://")
    THEN url
    ELSE "https://" \o url

\* hashlib.sha256(s.encode()).hexdigest(), tabulated for the strings the
\* model hashes (the raw URLs and their normalised forms).
Sha256HexDigest(s) ==
    CASE s = "https://example.com/x" ->
           "54cef8f42f3f31ad349075022cd36ce1a378d039c1df7af45d61d693d9a35c6a"
      [] s = "http://example.com/x" ->
           "83422ef35e89f2d4ed48efa4dc481189bc50296a2fa125a6f9716010b7132da3"
      [] s = "example.com/x" ->
           "1c7dadca7c6960846f13b9e956f179105f99e323f53f315a6d731019a4bcaf67"
      [] s = "https://example.com/p21031" ->
           "4652dcb98c0ce1d652e4fad2ca13356ca3eac3c3ba3dbcf54ed67db45d8f87de"
      [] s = "https://example.com/p40344" ->
           "4652dcb90380d814396500701548ed64ebea1d6d9d5b3ccace8b73c77965741c"

\* shorten_url: hexdigest()[:8]
ShortCode(long_url) == SubSeq(Sha256HexDigest(long_url), 1, 8)

\* The long URLs a request can carry once lambda_handler has normalised it.
LongUrls == { Normalize(u) : u \in RawUrls }

\* The short codes a GET request can name: the code of every URL above,
\* normalised or not (the code of "example.com/p21031" is never stored).
ShortCodes == { ShortCode(u) : u \in RawUrls \cup LongUrls }

(***************************************************************************)
(* Python dicts (url_cache, and the table keyed by short_code) are         *)
(* functions whose domain is the set of keys present.                      *)
(***************************************************************************)
EmptyDict == [k \in {} |-> None]

DictLen(d) == Cardinality(DOMAIN d)

DictSet(d, k, v) == [x \in (DOMAIN d) \cup {k} |-> IF x = k THEN v ELSE d[x]]

(***************************************************************************)
(* The DynamoDB table.  Each call either fails with a ClientError that     *)
(* leaves the table as it was (err), or takes effect atomically.           *)
(***************************************************************************)
\* Mutant of PutItemIfAbsent: the ConditionExpression is left out, so the put
\* overwrites an item that exists.
PutItemUnconditional(tbl, item, err) ==
    IF err
    THEN [status |-> "ClientError", table |-> tbl]
    ELSE [status |-> "ok", table |-> DictSet(tbl, item.short_code, item)]

\* table.put_item(Item=..., ConditionExpression='attribute_not_exists(short_code)')
PutItemIfAbsent(tbl, item, err) ==
    IF err
    THEN [status |-> "ClientError", table |-> tbl]
    ELSE IF item.short_code \in DOMAIN tbl
         THEN [status |-> "ConditionalCheckFailedException", table |-> tbl]
         ELSE [status |-> "ok", table |-> DictSet(tbl, item.short_code, item)]

\* Mutant of GetItem: the lookup names a key attribute the table does not
\* have, so no item is ever found.
GetItemWrongKey(tbl, key, err) ==
    IF err
    THEN [status |-> "ClientError", found |-> FALSE, Item |-> None]
    ELSE [status |-> "ok", found |-> FALSE, Item |-> None]

\* table.get_item(Key={'short_code': key})
GetItem(tbl, key, err) ==
    IF err
    THEN [status |-> "ClientError", found |-> FALSE, Item |-> None]
    ELSE IF key \in DOMAIN tbl
         THEN [status |-> "ok", found |-> TRUE, Item |-> tbl[key]]
         ELSE [status |-> "ok", found |-> FALSE, Item |-> None]

\* Mutant of UpdateItemIncrement: the click is written with a put of the key
\* and the new count, which replaces the item and loses its other attributes.
UpdateItemByPut(tbl, key, err) ==
    IF err
    THEN [status |-> "ClientError", table |-> tbl]
    ELSE [status |-> "ok",
          table |-> [tbl EXCEPT ![key] =
                       [short_code |-> key, long_url |-> None,
                        created_at |-> None, clicks |-> @.clicks + 1]]]

\* table.update_item(Key=..., UpdateExpression='SET clicks = clicks + :inc')
UpdateItemIncrement(tbl, key, err) ==
    IF err
    THEN [status |-> "ClientError", table |-> tbl]
    ELSE [status |-> "ok", table |-> [tbl EXCEPT ![key].clicks = @ + 1]]

(***************************************************************************)
(* The handlers, as functions of the instance's cache, the table and the   *)
(* outcomes of the calls they make.                                        *)
(***************************************************************************)
\* Mutant of CacheAdd: the entry is written without the size check.
\* Mutant of CacheAdd: a full cache gives up one of its entries for the new
\* one.
CacheAddEvicting(cache, code, entry) ==
    IF DictLen(cache) < CACHE_SIZE \/ code \in DOMAIN cache
    THEN DictSet(cache, code, entry)
    ELSE LET k == CHOOSE x \in DOMAIN cache : TRUE
         IN  [x \in ((DOMAIN cache) \ {k}) \cup {code} |->
                IF x = code THEN entry ELSE cache[x]]

\* Mutant of CacheAdd: the capacity test is left out.
CacheAddUnchecked(cache, code, entry) == DictSet(cache, code, entry)

\* "if len(url_cache) < CACHE_SIZE: url_cache[code] = entry"
CacheAdd(cache, code, entry) ==
    IF DictLen(cache) < CACHE_SIZE THEN DictSet(cache, code, entry) ELSE cache

\* Mutant of ShortenUrl: no cache fallback; a put that fails with a store
\* error makes the call return no code.
ShortenUrlNoFallback(cache, tbl, long_url, err, t1, t2) ==
    LET long_url_hash == ShortCode(long_url)
        item  == [short_code |-> long_url_hash, long_url |-> long_url,
                  created_at |-> t1, clicks |-> 0]
        entry == [long_url |-> long_url, created_at |-> t2, clicks |-> 0]
        put   == PutItemIfAbsent(tbl, item, err)
    IN  IF put.status = "ok"
        THEN [ret |-> long_url_hash, path |-> "inserted",
              cache |-> CacheAdd(cache, long_url_hash, entry),
              table |-> put.table]
        ELSE IF put.status = "ConditionalCheckFailedException"
        THEN [ret |-> long_url_hash, path |-> "exists",
              cache |-> cache, table |-> put.table]
        ELSE [ret |-> None, path |-> "put_error",
              cache |-> cache, table |-> put.table]

\* shorten_url(long_url).  t1 is the clock read for the table item, t2 the
\* later clock read for the cache entry.
ShortenUrl(cache, tbl, long_url, err, t1, t2) ==
    LET long_url_hash == ShortCode(long_url)
        item  == [short_code |-> long_url_hash, long_url |-> long_url,
                  created_at |-> t1, clicks |-> 0]
        entry == [long_url |-> long_url, created_at |-> t2, clicks |-> 0]
        put   == PutItemIfAbsent(tbl, item, err)
    IN  IF put.status = "ok"
        THEN [ret |-> long_url_hash, path |-> "inserted",
              cache |-> CacheAdd(cache, long_url_hash, entry),
              table |-> put.table]
        ELSE IF put.status = "ConditionalCheckFailedException"
        THEN [ret |-> long_url_hash, path |-> "exists",
              cache |-> cache, table |-> put.table]
        ELSE [ret |-> long_url_hash, path |-> "put_error",
              cache |-> CacheAdd(cache, long_url_hash, entry),
              table |-> put.table]

\* Mutant of RedirectUrl: the click is counted with an upserting update
\* before the item is looked up, so a code without item gets one.
RedirectUrlCountsFirst(cache, tbl, short_url, errGet, errUpd) ==
    IF short_url \in DOMAIN cache
    THEN [ret |-> cache[short_url].long_url, path |-> "cache_hit",
          cache |-> [cache EXCEPT ![short_url].clicks = @ + 1],
          table |-> tbl]
    ELSE IF errGet \/ errUpd
    THEN [ret |-> None,
          path |-> IF errGet THEN "get_error" ELSE "update_error",
          cache |-> cache, table |-> tbl]
    ELSE IF short_url \in DOMAIN tbl
    THEN [ret |-> tbl[short_url].long_url, path |-> "table_hit",
          cache |-> CacheAdd(cache, short_url, tbl[short_url]),
          table |-> [tbl EXCEPT ![short_url].clicks = @ + 1]]
    ELSE [ret |-> None, path |-> "miss", cache |-> cache,
          table |-> DictSet(tbl, short_url,
                            [short_code |-> short_url, long_url |-> None,
                             created_at |-> None, clicks |-> 1])]

\* Mutant of RedirectUrl: the item is put into the cache before the click
\* is written, so it stays there when update_item fails.
RedirectUrlCachesFirst(cache, tbl, short_url, errGet, errUpd) ==
    IF short_url \in DOMAIN cache
    THEN [ret |-> cache[short_url].long_url, path |-> "cache_hit",
          cache |-> [cache EXCEPT ![short_url].clicks = @ + 1],
          table |-> tbl]
    ELSE IF errGet
    THEN [ret |-> None, path |-> "get_error",
          cache |-> cache, table |-> tbl]
    ELSE IF short_url \notin DOMAIN tbl
    THEN [ret |-> None, path |-> "miss", cache |-> cache, table |-> tbl]
    ELSE IF errUpd
    THEN [ret |-> None, path |-> "update_error",
          cache |-> CacheAdd(cache, short_url, tbl[short_url]),
          table |-> tbl]
    ELSE [ret |-> tbl[short_url].long_url, path |-> "table_hit",
          cache |-> CacheAdd(cache, short_url, tbl[short_url]),
          table |-> [tbl EXCEPT ![short_url].clicks = @ + 1]]

\* Mutant of RedirectUrl: a cache hit also writes the click to the table
\* item of the code when there is one.
RedirectUrlWriteThrough(cache, tbl, short_url, errGet, errUpd) ==
    IF short_url \in DOMAIN cache
    THEN [ret |-> cache[short_url].long_url, path |-> "cache_hit",
          cache |-> [cache EXCEPT ![short_url].clicks = @ + 1],
          table |-> IF short_url \in DOMAIN tbl
                    THEN [tbl EXCEPT ![short_url].clicks = @ + 1]
                    ELSE tbl]
    ELSE IF errGet
    THEN [ret |-> None, path |-> "get_error",
          cache |-> cache, table |-> tbl]
    ELSE IF short_url \notin DOMAIN tbl
    THEN [ret |-> None, path |-> "miss", cache |-> cache, table |-> tbl]
    ELSE IF errUpd
    THEN [ret |-> None, path |-> "update_error",
          cache |-> cache, table |-> tbl]
    ELSE [ret |-> tbl[short_url].long_url, path |-> "table_hit",
          cache |-> CacheAdd(cache, short_url, tbl[short_url]),
          table |-> [tbl EXCEPT ![short_url].clicks = @ + 1]]

\* redirect_url(short_url)
RedirectUrl(cache, tbl, short_url, errGet, errUpd) ==
    IF short_url \in DOMAIN cache
    THEN [ret |-> cache[short_url].long_url, path |-> "cache_hit",
          cache |-> [cache EXCEPT ![short_url].clicks = @ + 1],
          table |-> tbl]
    ELSE LET response == GetItem(tbl, short_url, errGet)
         IN  IF response.status = "ClientError"
             THEN [ret |-> None, path |-> "get_error",
                   cache |-> cache, table |-> tbl]
             ELSE IF ~response.found
             THEN [ret |-> None, path |-> "miss",
                   cache |-> cache, table |-> tbl]
             ELSE LET upd == UpdateItemIncrement(tbl, short_url, errUpd)
                  IN  IF upd.status = "ClientError"
                      THEN [ret |-> None, path |-> "update_error",
                            cache |-> cache, table |-> upd.table]
                      ELSE [ret |-> response.Item.long_url,
                            path |-> "table_hit",
                            cache |-> CacheAdd(cache, short_url, response.Item),
                            table |-> upd.table]

\* get_url_stats(short_url)
GetUrlStats(cache, tbl, short_url, errGet) ==
    IF short_url \in DOMAIN cache
    THEN [ret |-> [short_code |-> short_url,
                   long_url   |-> cache[short_url].long_url,
                   created_at |-> cache[short_url].created_at,
                   clicks     |-> cache[short_url].clicks],
          ok |-> TRUE, path |-> "cache_hit"]
    ELSE LET response == GetItem(tbl, short_url, errGet)
         IN  IF response.status = "ClientError"
             THEN [ret |-> None, ok |-> FALSE, path |-> "get_error"]
             ELSE IF ~response.found
             THEN [ret |-> None, ok |-> FALSE, path |-> "miss"]
             ELSE [ret |-> [short_code |-> short_url,
                            long_url   |-> response.Item.long_url,
                            created_at |-> response.Item.created_at,
                            clicks     |-> response.Item.clicks],
                   ok |-> TRUE, path |-> "table_hit"]

(***************************************************************************)
(* State.                                                                  *)
(***************************************************************************)
VARIABLES
    url_cache,   \* the cache dict of the observed instance
    table,       \* the DynamoDB table: short_code -> item
    now,         \* the last value read from the clock
    redirects,   \* redirects that returned a URL so far (all instances)
    last,        \* the request just handled on the observed instance and
                 \* its result, until lambda_handler has returned it
    inst         \* the instances whose table calls interleave: for each,
                 \* its position in the handler, its request and its cache

vars == <<url_cache, table, now, redirects, last, inst>>

\* The instances that run concurrently with each other.
NumInstances == 3
Instances == 1..NumInstances

\* The value of response['Item'] before get_item has been called.
NoItem == [short_code |-> None, long_url |-> None, created_at |-> 0,
           clicks |-> 0]

\* An instance that has started (module level: empty cache) and has not
\* received its request.
IdleInstance == [pc |-> "idle", op |-> None, arg |-> None, item |-> NoItem,
                 ret |-> None, path |-> None, cache |-> EmptyDict]

\* No request is being handled.
NoRequest == [op |-> "none", arg |-> None, long_url |-> None, ok |-> FALSE,
              ret |-> None, path |-> None]

Init ==
    /\ url_cache = EmptyDict
    /\ table = EmptyDict
    /\ now = 0
    /\ redirects = 0
    /\ last = NoRequest
    /\ inst = [i \in Instances |-> IdleInstance]

(***************************************************************************)
(* The requests of the observed instance.  An instance handles one request *)
(* at a time: a handler starts when the previous response has been         *)
(* returned.                                                               *)
(***************************************************************************)
\* Mutant of Shorten: the cache entry keeps the URL as received, the table
\* item the normalised one.
ShortenCachesRaw(raw) ==
    /\ last.op = "none"
    /\ raw # ""
    /\ \E err \in BOOLEAN, t1 \in now..MaxTime :
         LET long_url == Normalize(raw)
             r == ShortenUrl(url_cache, table, long_url, err, t1, t1)
         IN  /\ url_cache' = IF r.cache = url_cache
                             THEN url_cache
                             ELSE [r.cache EXCEPT ![r.ret].long_url = raw]
             /\ table' = r.table
             /\ now' = t1
             /\ last' = [op |-> "shorten", arg |-> raw,
                         long_url |-> long_url, ok |-> r.ret # None,
                         ret |-> r.ret, path |-> r.path]
    /\ UNCHANGED <<redirects, inst>>

\* POST /shorten with body {"url": raw}.  The handler reads the clock for the
\* table item (t1) and, when it writes a cache entry, again for that entry (t2).
Shorten(raw) ==
    /\ last.op = "none"
    /\ raw # ""
    /\ \E err \in BOOLEAN, t1 \in now..MaxTime :
         \E t2 \in t1..MaxTime :
           LET long_url == Normalize(raw)
               r == ShortenUrl(url_cache, table, long_url, err, t1, t2)
           IN  /\ (t2 # t1) => (r.path # "exists"
                                /\ DictLen(url_cache) < CACHE_SIZE)
               /\ url_cache' = r.cache
               /\ table' = r.table
               /\ now' = t2
               /\ last' = [op |-> "shorten", arg |-> raw,
                           long_url |-> long_url, ok |-> r.ret # None,
                           ret |-> r.ret, path |-> r.path]
    /\ UNCHANGED <<redirects, inst>>

\* GET /redirect/{short_code}.  A table call can fail only if it is made.
Redirect(short_code) ==
    /\ last.op = "none"
    /\ redirects < MaxRedirects
    /\ \E errGet \in BOOLEAN, errUpd \in BOOLEAN :
         LET r == RedirectUrl(url_cache, table, short_code, errGet, errUpd)
         IN  /\ errGet => r.path = "get_error"
             /\ errUpd => r.path = "update_error"
             /\ url_cache' = r.cache
             /\ table' = r.table
             /\ redirects' = IF r.ret # None THEN redirects + 1 ELSE redirects
             /\ last' = [op |-> "redirect", arg |-> short_code,
                         long_url |-> None, ok |-> r.ret # None,
                         ret |-> r.ret, path |-> r.path]
    /\ UNCHANGED <<now, inst>>

\* Mutant of Stats: like redirect_url, the handler puts an item it read
\* from the table into the cache.
StatsCaching(short_code) ==
    /\ last.op = "none"
    /\ \E errGet \in BOOLEAN :
         LET r == GetUrlStats(url_cache, table, short_code, errGet)
         IN  /\ errGet => r.path = "get_error"
             /\ url_cache' = IF r.path = "table_hit"
                             THEN CacheAdd(url_cache, short_code,
                                           table[short_code])
                             ELSE url_cache
             /\ last' = [op |-> "stats", arg |-> short_code,
                         long_url |-> None, ok |-> r.ok,
                         ret |-> r.ret, path |-> r.path]
    /\ UNCHANGED <<table, now, redirects, inst>>

\* GET /stats/{short_code}.
Stats(short_code) ==
    /\ last.op = "none"
    /\ \E errGet \in BOOLEAN :
         LET r == GetUrlStats(url_cache, table, short_code, errGet)
         IN  /\ errGet => r.path = "get_error"
             /\ last' = [op |-> "stats", arg |-> short_code,
                         long_url |-> None, ok |-> r.ok,
                         ret |-> r.ret, path |-> r.path]
    /\ UNCHANGED <<url_cache, table, now, redirects, inst>>

\* lambda_handler returns the response; the instance takes the next request.
Respond ==
    /\ last.op # "none"
    /\ last' = NoRequest
    /\ UNCHANGED <<url_cache, table, now, redirects, inst>>

(***************************************************************************)
(* The requests of the other instances.  An instance that starts has an    *)
(* empty cache, so every table call the handlers make can come from one.   *)
(***************************************************************************)
\* POST /shorten on another instance: its conditional put inserts the item.
PeerShorten(raw) ==
    /\ last.op = "none"
    /\ raw # ""
    /\ \E t1 \in now..MaxTime :
         LET r == ShortenUrl(EmptyDict, table, Normalize(raw), FALSE, t1, t1)
         IN  /\ r.path = "inserted"
             /\ table' = r.table
             /\ now' = t1
    /\ UNCHANGED <<url_cache, redirects, last, inst>>

\* GET /redirect/{short_code} on another instance, served from the table.
PeerRedirect(short_code) ==
    /\ last.op = "none"
    /\ redirects < MaxRedirects
    /\ LET r == RedirectUrl(EmptyDict, table, short_code, FALSE, FALSE)
       IN  /\ r.path = "table_hit"
           /\ table' = r.table
    /\ redirects' = redirects + 1
    /\ UNCHANGED <<url_cache, now, last, inst>>

Next ==
    \/ \E raw \in RawUrls : Shorten(raw)
    \/ \E c \in ShortCodes : Redirect(c)
    \/ \E c \in ShortCodes : Stats(c)
    \/ Respond
    \/ \E raw \in RawUrls : PeerShorten(raw)
    \/ \E c \in ShortCodes : PeerRedirect(c)

Spec == Init /\ [][Next]_vars

(***************************************************************************)
(* Concurrent instances.  Each instance handles one request with its own   *)
(* cache; the table serialises the calls it receives, so a step is one     *)
(* table call together with the instance-local code around it.             *)
(***************************************************************************)
\* POST /shorten on instance i: shorten_url makes one table call (put_item).
ConcShorten(i, raw) ==
    /\ inst[i].pc = "idle"
    /\ raw # ""
    /\ \E err \in BOOLEAN, t1 \in now..MaxTime :
         LET r == ShortenUrl(inst[i].cache, table, Normalize(raw), err, t1, t1)
         IN  /\ table' = r.table
             /\ now' = t1
             /\ inst' = [inst EXCEPT ![i] =
                          [pc |-> "done", op |-> "shorten",
                           arg |-> Normalize(raw), item |-> NoItem,
                           ret |-> r.ret, path |-> r.path,
                           cache |-> r.cache]]
    /\ UNCHANGED <<url_cache, redirects, last>>

\* GET /redirect/{short_code} on instance i, up to the return of get_item.
ConcRedirectGet(i, short_code) ==
    /\ inst[i].pc = "idle"
    /\ short_code \notin DOMAIN inst[i].cache
    /\ \E errGet \in BOOLEAN :
         LET response == GetItem(table, short_code, errGet)
             req == [inst[i] EXCEPT !.op = "redirect", !.arg = short_code]
         IN  inst' = [inst EXCEPT ![i] =
                        IF response.status = "ClientError"
                        THEN [req EXCEPT !.pc = "done", !.path = "get_error"]
                        ELSE IF ~response.found
                        THEN [req EXCEPT !.pc = "done", !.path = "miss"]
                        ELSE [req EXCEPT !.pc = "update",
                                         !.item = response.Item]]
    /\ UNCHANGED <<url_cache, table, now, redirects, last>>

\* Mutant of ConcRedirectUpdate: the click is written as the clicks read by
\* get_item plus 1 instead of an increment in the table.
ConcRedirectUpdateStale(i) ==
    /\ inst[i].pc = "update"
    /\ table' = [table EXCEPT ![inst[i].arg].clicks = inst[i].item.clicks + 1]
    /\ inst' = [inst EXCEPT ![i].pc = "done",
                            ![i].path = "table_hit",
                            ![i].ret = inst[i].item.long_url,
                            ![i].cache = CacheAdd(inst[i].cache, inst[i].arg,
                                                  inst[i].item)]
    /\ UNCHANGED <<url_cache, now, redirects, last>>

\* The rest of redirect_url on instance i: update_item, the cache write and
\* the return.
ConcRedirectUpdate(i) ==
    /\ inst[i].pc = "update"
    /\ \E errUpd \in BOOLEAN :
         LET upd == UpdateItemIncrement(table, inst[i].arg, errUpd)
         IN  /\ table' = upd.table
             /\ inst' = [inst EXCEPT ![i] =
                          IF upd.status = "ClientError"
                          THEN [inst[i] EXCEPT !.pc = "done",
                                               !.path = "update_error"]
                          ELSE [inst[i] EXCEPT
                                  !.pc = "done",
                                  !.path = "table_hit",
                                  !.ret = inst[i].item.long_url,
                                  !.cache = CacheAdd(inst[i].cache,
                                                     inst[i].arg,
                                                     inst[i].item)]]
    /\ UNCHANGED <<url_cache, now, redirects, last>>

NextConc ==
    \/ \E i \in Instances, raw \in RawUrls : ConcShorten(i, raw)
    \/ \E i \in Instances, c \in ShortCodes : ConcRedirectGet(i, c)
    \/ \E i \in Instances : ConcRedirectUpdate(i)

SpecConc == Init /\ [][NextConc]_vars

(***************************************************************************)
(* Properties.  A step of a handler is recognised by the request it leaves *)
(* in `last'; the unprimed variables are the state the handler started in. *)
(***************************************************************************)
ShortenStep == last.op = "none" /\ last'.op = "shorten"

RedirectStep == last.op = "none" /\ last'.op = "redirect"

StatsStep == last.op = "none" /\ last'.op = "stats"

\* The clicks get_url_stats reports for a code that has a record (no table
\* error), from the cache if the code is cached and from the table otherwise.
ReportedClicks(cache, tbl, c) == GetUrlStats(cache, tbl, c, FALSE).ret.clicks

\* C1: each redirect that returns a URL raises by exactly 1 the click count
\* that get_url_stats reports for that code, whichever tier serves the
\* redirect and the statistics.
C1_RedirectRaisesReportedClicksByOne ==
    [][(RedirectStep /\ last'.ok)
         => ReportedClicks(url_cache', table', last'.arg)
              = ReportedClicks(url_cache, table, last'.arg) + 1]_vars

\* "if not long_url.startswith(('http://', 'https://'))" is false for url.
HasScheme(url) == StartsWith(url, "http://") \/ StartsWith(url, "https://")

\* create(raw) from a cache and a table: the normalisation in lambda_handler
\* followed by shorten_url.
Create(cache, tbl, raw, err, t1, t2) ==
    ShortenUrl(cache, tbl, Normalize(raw), err, t1, t2)

\* C2 as claimed: from every state in which the instance takes a request, for
\* every URL u that carries a scheme, redirect_url of the code returned by
\* create(u) returns u (no table call failing).
C2_RoundTrip ==
    last.op = "none" =>
      \A u \in {x \in RawUrls : HasScheme(x)} :
        \A t1 \in now..MaxTime :
          \A t2 \in t1..MaxTime :
            LET r1 == Create(url_cache, table, u, FALSE, t1, t2)
                r2 == RedirectUrl(r1.cache, r1.table, r1.ret, FALSE, FALSE)
            IN  r2.ret = u

\* C2 as amended: redirect_url of the code c returned by create(u) returns u
\* provided that no tier holds a different URL under c, that create stores
\* the record or finds it stored (its put does not fail, or the cache has
\* room, or c is already in a tier), and that the redirect is served from
\* the cache or its table calls do not fail; in every case it returns u,
\* None or the URL that was stored under c before.
C2_RoundTripAmended ==
    last.op = "none" =>
      \A u \in {x \in RawUrls : HasScheme(x)} :
        \A err \in BOOLEAN, errGet \in BOOLEAN, errUpd \in BOOLEAN :
          \A t1 \in now..MaxTime :
            \A t2 \in t1..MaxTime :
              LET r1 == Create(url_cache, table, u, err, t1, t2)
                  c  == r1.ret
                  r2 == RedirectUrl(r1.cache, r1.table, c, errGet, errUpd)
                  room == DictLen(url_cache) < CACHE_SIZE
                  noOtherUrl ==
                      /\ c \in DOMAIN url_cache => url_cache[c].long_url = u
                      /\ c \in DOMAIN table => table[c].long_url = u
                  stored ==
                      \/ ~err
                      \/ room
                      \/ c \in DOMAIN url_cache
                      \/ c \in DOMAIN table
                  cachedAfter ==
                      \/ c \in DOMAIN url_cache
                      \/ (err \/ c \notin DOMAIN table) /\ room
                  before ==
                      {url_cache[k].long_url : k \in DOMAIN url_cache \cap {c}}
                        \cup {table[k].long_url : k \in DOMAIN table \cap {c}}
              IN  /\ r2.ret \in {u, None} \cup before
                  /\ (noOtherUrl /\ stored
                        /\ (cachedAfter \/ (~errGet /\ ~errUpd)))
                       => r2.ret = u

\* C2 witness: a URL has been created whose code is not in the full cache,
\* and a redirect of that code, served from the table, has returned the URL.
C2_Witness ==
    /\ last.op = "redirect"
    /\ last.path = "table_hit"
    /\ last.arg \notin DOMAIN url_cache
    /\ last.ret \in LongUrls
    /\ ShortCode(last.ret) = last.arg

\* C3: create is idempotent.  From every state in which the instance takes
\* a request, for every URL and every outcome of the two puts, a second
\* create(u) returns the code the first returned, returns a code on every
\* path, and leaves the table as the first call left it whenever the table
\* holds a record for that code after the first call.
C3_CreateIdempotent ==
    last.op = "none" =>
      \A u \in RawUrls :
        \A err1 \in BOOLEAN, err2 \in BOOLEAN :
          \A ta \in now..MaxTime :
            \A tb \in ta..MaxTime :
              \A tc \in tb..MaxTime :
                \A td \in tc..MaxTime :
                  LET r1 == Create(url_cache, table, u, err1, ta, tb)
                      r2 == Create(r1.cache, r1.table, u, err2, tc, td)
                  IN  /\ r2.ret = r1.ret
                      /\ r2.ret \in ShortCodes
                      /\ r2.path \in {"inserted", "exists", "put_error"}
                      /\ r1.ret \in DOMAIN r1.table => r2.table = r1.table

\* C3 witness: a create has found the record of its URL already in the
\* table, created earlier and clicked since.
C3_Witness ==
    /\ last.op = "shorten"
    /\ last.path = "exists"
    /\ table[last.ret].long_url = last.long_url
    /\ table[last.ret].clicks > 0
    /\ table[last.ret].created_at < now

\* C4 as claimed: after a create whose put failed with a store error, the
\* returned code is in the cache with long_url = u and clicks = 0.
C4_DegradedCreateCaches ==
    (last.op = "shorten" /\ last.path = "put_error")
      => /\ last.ret = ShortCode(last.long_url)
         /\ last.ret \in DOMAIN url_cache
         /\ url_cache[last.ret].long_url = last.long_url
         /\ url_cache[last.ret].clicks = 0

\* C4 as amended: a create whose put fails with a store error returns the
\* code and leaves the table unchanged; if the cache holds fewer than
\* CACHE_SIZE entries it stores (long_url = u, clicks = 0) under the code,
\* replacing an entry already there, and otherwise it leaves the cache
\* unchanged.
C4_DegradedCreateAmended ==
    [][(ShortenStep /\ last'.path = "put_error")
         => LET c == last'.ret
            IN  /\ c = ShortCode(last'.long_url)
                /\ table' = table
                /\ IF DictLen(url_cache) < CACHE_SIZE
                   THEN /\ DOMAIN url_cache' = DOMAIN url_cache \cup {c}
                        /\ url_cache'[c].long_url = last'.long_url
                        /\ url_cache'[c].clicks = 0
                        /\ url_cache'[c].created_at \in now..now'
                        /\ \A k \in DOMAIN url_cache \ {c} :
                             url_cache'[k] = url_cache[k]
                   ELSE url_cache' = url_cache]_vars

\* C4 witness: a create whose put failed found the cache full, and its code
\* is in neither tier.
C4_Witness ==
    /\ last.op = "shorten"
    /\ last.path = "put_error"
    /\ DictLen(url_cache) = CACHE_SIZE
    /\ last.ret \notin DOMAIN url_cache
    /\ last.ret \notin DOMAIN table

\* C5: a redirect of a code that is in neither the cache nor the table
\* returns None and changes neither tier, whether its lookup fails or not.
C5_RedirectUnknownCode ==
    [][(RedirectStep /\ last'.arg \notin DOMAIN url_cache
                     /\ last'.arg \notin DOMAIN table)
         => /\ ~last'.ok
            /\ last'.ret = None
            /\ url_cache' = url_cache
            /\ table' = table
            /\ redirects' = redirects]_vars

\* C5 witness: a redirect has found its code in neither tier while both
\* tiers hold records of other codes.
C5_Witness ==
    /\ last.op = "redirect"
    /\ last.path = "miss"
    /\ DictLen(url_cache) > 0
    /\ DictLen(table) > 0

\* C6: a get_url_stats call changes neither the cache nor the table, on
\* every path (cache hit, table hit, miss, table error).
C6_StatsReadOnly ==
    [][StatsStep => (url_cache' = url_cache /\ table' = table)]_vars

\* C6 witness: statistics have been served from the table, for a clicked
\* code, while the cache had room for the item.
C6_Witness ==
    /\ last.op = "stats"
    /\ last.path = "table_hit"
    /\ last.ret.clicks > 0
    /\ DictLen(url_cache) < CACHE_SIZE

\* C7 as claimed: a create that reaches the table leaves its URL resolvable
\* when its code is not in the cache (redirect_url of the code returns the
\* URL), and no request removes a table item or changes its long_url.
C7_NoDataLoss ==
    [][/\ (ShortenStep /\ last'.path \in {"inserted", "exists"}
                       /\ last'.ret \notin DOMAIN url_cache')
          => RedirectUrl(url_cache', table', last'.ret, FALSE, FALSE).ret
               = last'.long_url
       /\ \A c \in DOMAIN table :
            c \in DOMAIN table' /\ table'[c].long_url = table[c].long_url]_vars

\* C7 as amended: a create that reaches the table, when neither tier holds a
\* different URL under its code, leaves its URL resolvable (from the table
\* when the code is not in the cache, whatever the cache's fill), and no
\* request removes a table item or changes its long_url.
C7_NoDataLossAmended ==
    [][/\ (/\ ShortenStep
           /\ last'.path \in {"inserted", "exists"}
           /\ last'.ret \in DOMAIN table
                => table[last'.ret].long_url = last'.long_url
           /\ last'.ret \in DOMAIN url_cache
                => url_cache[last'.ret].long_url = last'.long_url)
          => /\ table'[last'.ret].long_url = last'.long_url
             /\ RedirectUrl(url_cache', table', last'.ret, FALSE, FALSE).ret
                  = last'.long_url
       /\ \A c \in DOMAIN table :
            c \in DOMAIN table' /\ table'[c].long_url = table[c].long_url]_vars

\* C7 witness: the table holds more URLs than the cache can, the cache is
\* full, and a redirect of a code that is not cached has returned its URL
\* from the table.
C7_Witness ==
    /\ last.op = "redirect"
    /\ last.path = "table_hit"
    /\ DictLen(table) > CACHE_SIZE
    /\ DictLen(url_cache) = CACHE_SIZE
    /\ last.arg \notin DOMAIN url_cache
    /\ last.ret = table[last.arg].long_url

\* C8: the cache never holds more than CACHE_SIZE entries.
C8_CacheBounded == DictLen(url_cache) <= CACHE_SIZE

\* C8 witness: a request has tried to add a code to the full cache (a
\* degraded create of a code that is not cached).
C8_Witness ==
    /\ last.op = "shorten"
    /\ last.path = "put_error"
    /\ DictLen(url_cache) = CACHE_SIZE
    /\ last.ret \notin DOMAIN url_cache

C10_CodeOf(raw) ==
    CASE raw = "example.com/x" -> "54cef8f4"
      [] raw = "https://example.com/x" -> "54cef8f4"
      [] raw = "http://example.com/x" -> "83422ef3"
      [] raw = "https://example.com/p21031" -> "4652dcb9"
      [] raw = "https://example.com/p40344" -> "4652dcb9"

\* C10: the code create returns is a function of the URL alone: in every
\* state of the cache and the table, and whether the put inserts, finds the
\* item or fails, create(u) returns the one code of u, never None.
C10_CodeDependsOnUrlOnly ==
    last.op = "shorten" => (last.ok /\ last.ret = C10_CodeOf(last.arg))

\* C10 witness: a create whose put failed has returned its code with the
\* cache full and the table not empty.
C10_Witness ==
    /\ last.op = "shorten"
    /\ last.path = "put_error"
    /\ last.ok
    /\ DictLen(url_cache) = CACHE_SIZE
    /\ DictLen(table) > 0

\* C11: when the code is not in the cache and a table call of redirect_url
\* (get_item, or update_item after a get_item that found the item) or of
\* get_url_stats (get_item) fails with ClientError, the call returns None
\* and leaves the cache as it was.
C11_StoreErrorGivesNotFound ==
    [][((RedirectStep \/ StatsStep)
          /\ last'.arg \notin DOMAIN url_cache
          /\ last'.path \in {"get_error", "update_error"})
         => (~last'.ok /\ url_cache' = url_cache)]_vars

\* C11 witness: the increment of a redirect has failed after its lookup
\* found the item, while the cache had room for it.
C11_Witness ==
    /\ last.op = "redirect"
    /\ last.path = "update_error"
    /\ last.arg \in DOMAIN table
    /\ DictLen(url_cache) < CACHE_SIZE

\* C12: a shorten_url call for a code that already has a record changes the
\* clicks of that record in neither tier, whatever the outcome of its put,
\* and does not lower the clicks get_url_stats reports for the code.
C12_CreateKeepsClicks ==
    [][ShortenStep
         => LET c == last'.ret
            IN  /\ c \in DOMAIN url_cache
                     => url_cache'[c].clicks = url_cache[c].clicks
                /\ c \in DOMAIN table
                     => table'[c].clicks = table[c].clicks
                /\ (c \in DOMAIN url_cache \/ c \in DOMAIN table)
                     => ReportedClicks(url_cache', table', c)
                          >= ReportedClicks(url_cache, table, c)]_vars

\* C13: redirect_url of a cached code returns the cached long_url, adds 1 to
\* the cached clicks of that code and changes nothing else: the other cache
\* entries and the whole table stay as they were.
C13_CacheHitCountsInCacheOnly ==
    [][(RedirectStep /\ last'.arg \in DOMAIN url_cache)
         => LET c == last'.arg
            IN  /\ last'.path = "cache_hit"
                /\ last'.ret = url_cache[c].long_url
                /\ url_cache' = [url_cache EXCEPT ![c].clicks = @ + 1]
                /\ table' = table]_vars

\* C13 witness: a redirect has been served from the cache for a code that
\* also has a table item.
C13_Witness ==
    /\ last.op = "redirect"
    /\ last.path = "cache_hit"
    /\ last.arg \in DOMAIN table
    /\ url_cache[last.arg].clicks > 0

\* C14: redirect_url of a code that is not cached and has a table item, no
\* table call failing, returns the item's long_url, adds 1 to the item's
\* clicks and changes no other item; it adds the code to the cache exactly
\* when the cache is below CACHE_SIZE and changes no other cache entry.
C14_TableHitCountsAndCaches ==
    [][(RedirectStep /\ last'.arg \notin DOMAIN url_cache
                     /\ last'.arg \in DOMAIN table
                     /\ last'.path \notin {"get_error", "update_error"})
         => LET c == last'.arg
            IN  /\ last'.ret = table[c].long_url
                /\ table' = [table EXCEPT ![c].clicks = @ + 1]
                /\ IF DictLen(url_cache) < CACHE_SIZE
                   THEN /\ DOMAIN url_cache' = DOMAIN url_cache \cup {c}
                        /\ url_cache'[c].long_url = table[c].long_url
                        /\ url_cache'[c].created_at = table[c].created_at
                        /\ \A k \in DOMAIN url_cache :
                             url_cache'[k] = url_cache[k]
                   ELSE url_cache' = url_cache]_vars

\* C14 witness: a redirect served from the table has counted its click in
\* the table and has put the item into a cache that held another code.
C14_Witness ==
    /\ last.op = "redirect"
    /\ last.path = "table_hit"
    /\ last.arg \in DOMAIN url_cache
    /\ DictLen(url_cache) = CACHE_SIZE
    /\ table[last.arg].clicks > 0

\* The created_at get_url_stats reports for a code that has a record (no
\* table error), from the cache if the code is cached, else from the table.
ReportedCreatedAt(cache, tbl, c) ==
    GetUrlStats(cache, tbl, c, FALSE).ret.created_at

\* C15: once a code has a record, the created_at that get_url_stats reports
\* for it is changed by no request.
C15_CreatedAtImmutable ==
    [][\A c \in ShortCodes :
         (c \in DOMAIN url_cache \/ c \in DOMAIN table)
           => ReportedCreatedAt(url_cache', table', c)
                = ReportedCreatedAt(url_cache, table, c)]_vars

\* The instances that have returned from shorten_url(u).
Creators(u) ==
    {i \in Instances : inst[i].pc = "done" /\ inst[i].op = "shorten"
                         /\ inst[i].arg = u}

\* The instances whose conditional put of u inserted the item.
Inserters(u) == {i \in Creators(u) : inst[i].path = "inserted"}

\* The instances that have shortened another URL with the same code as u.
Colliders(u) ==
    {i \in Instances : inst[i].pc = "done" /\ inst[i].op = "shorten"
                         /\ inst[i].arg # u
                         /\ ShortCode(inst[i].arg) = ShortCode(u)}

\* C16 as claimed: when several instances have interleaved shorten_url(u)
\* for one URL (and none another URL with its code), exactly one conditional
\* put has inserted, every caller has got the code of u, and the table holds
\* the item of that code with long_url u.
C16_ConcurrentCreate ==
    \A u \in LongUrls :
      (Cardinality(Creators(u)) >= 2 /\ Colliders(u) = {})
        => /\ Cardinality(Inserters(u)) = 1
           /\ \A i \in Creators(u) : inst[i].ret = ShortCode(u)
           /\ ShortCode(u) \in DOMAIN table
           /\ table[ShortCode(u)].long_url = u

\* C16 as amended: under the same interleavings, every caller gets the code
\* of u and at most one conditional put inserts; exactly one inserts, and
\* the table holds the item with long_url u, when at least one of the puts
\* does not fail with a store error; when all fail the table has no item
\* for the code.
C16_ConcurrentCreateAmended ==
    \A u \in LongUrls :
      (Cardinality(Creators(u)) >= 2 /\ Colliders(u) = {})
        => /\ \A i \in Creators(u) : inst[i].ret = ShortCode(u)
           /\ Cardinality(Inserters(u)) <= 1
           /\ IF \E i \in Creators(u) : inst[i].path # "put_error"
              THEN /\ Cardinality(Inserters(u)) = 1
                   /\ ShortCode(u) \in DOMAIN table
                   /\ table[ShortCode(u)].long_url = u
              ELSE ShortCode(u) \notin DOMAIN table

\* C16 witness: all instances have shortened the same URL; one put has
\* inserted and another has found the item.
C16_Witness ==
    \E u \in LongUrls :
      /\ Creators(u) = Instances
      /\ Cardinality(Inserters(u)) = 1
      /\ \E i \in Creators(u) : inst[i].path = "exists"

\* The instances whose redirect_url(c) missed the cache, found the item and
\* has returned from update_item without error.
Counted(c) ==
    {i \in Instances : inst[i].pc = "done" /\ inst[i].op = "redirect"
                         /\ inst[i].arg = c /\ inst[i].path = "table_hit"}

\* C17: under every interleaving of the get_item and update_item calls of
\* redirects on different instances, the clicks of a table item (0 when it
\* is inserted) equal the number of redirects of its code that were served
\* from the table: no increment is lost.
C17_NoLostIncrement ==
    \A c \in DOMAIN table : table[c].clicks = Cardinality(Counted(c))

\* C17 witness: two instances have read the same item before either has
\* incremented it, and both increments are in the table.
C17_Witness ==
    \E i, j \in Instances :
      /\ i # j
      /\ i \in Counted(inst[i].arg)
      /\ j \in Counted(inst[i].arg)
      /\ inst[i].item.clicks = 0
      /\ inst[j].item.clicks = 0
      /\ table[inst[i].arg].clicks = 2

\* C18: no request removes a code from the cache, and no request adds a
\* code to a cache that holds CACHE_SIZE entries.
C18_EvictNothing ==
    [][/\ DOMAIN url_cache \subseteq DOMAIN url_cache'
       /\ DictLen(url_cache) >= CACHE_SIZE
            => DOMAIN url_cache' = DOMAIN url_cache]_vars

\* C18 witness: a create has inserted its item into the table while the
\* cache was full of other codes.
C18_Witness ==
    /\ last.op = "shorten"
    /\ last.path = "inserted"
    /\ DictLen(url_cache) = CACHE_SIZE
    /\ last.ret \notin DOMAIN url_cache

\* C19: shorten_url of a URL whose code has a table item with a different
\* long_url, the put not failing with a store error, returns that code and
\* leaves the table as it was: the item keeps the first URL.
C19_CollisionKeepsFirstUrl ==
    [][(/\ ShortenStep
        /\ last'.path # "put_error"
        /\ last'.ret \in DOMAIN table
        /\ table[last'.ret].long_url # last'.long_url)
         => /\ last'.ok
            /\ last'.ret = ShortCode(last'.long_url)
            /\ last'.ret = ShortCode(table[last'.ret].long_url)
            /\ table' = table]_vars

\* C19 witness: a create has found, under its code, the item of another
\* URL.
C19_Witness ==
    /\ last.op = "shorten"
    /\ last.path = "exists"
    /\ table[last.ret].long_url # last.long_url
    /\ ShortCode(table[last.ret].long_url) = last.ret

\* C20 as claimed: for every code that is both in the cache and in the
\* table, the cached long_url equals the long_url of the table item.
C20_TiersAgreeOnUrl ==
    \A c \in (DOMAIN url_cache) \cap (DOMAIN table) :
      url_cache[c].long_url = table[c].long_url

\* C20 as amended: for every code that is both in the cache and in the
\* table, both long_urls derive that code; they are equal unless they are
\* two distinct URLs with the same code.
C20_TiersAgreeAmended ==
    \A c \in (DOMAIN url_cache) \cap (DOMAIN table) :
      /\ ShortCode(url_cache[c].long_url) = c
      /\ ShortCode(table[c].long_url) = c
      /\ Cardinality({u \in LongUrls : ShortCode(u) = c}) = 1
           => url_cache[c].long_url = table[c].long_url

\* C20 witness: a code is in both tiers with the same long_url while the
\* two records differ in their clicks.
C20_Witness ==
    \E c \in (DOMAIN url_cache) \cap (DOMAIN table) :
      /\ url_cache[c].long_url = table[c].long_url
      /\ url_cache[c].clicks # table[c].clicks

====
